---- MODULE Spec2Model ----
(***************************************************************************)
(* Model of black's bracket tracker (src/black/brackets.py) and of the     *)
(* grammar-fallback parser (src/black/parsing.py).                         *)
(*                                                                         *)
(* A leaf is a record [type, value, parent, grandparent, prev_sibling]:    *)
(* its token kind, its text, the grammar symbol of its parent node and of  *)
(* its grandparent ("None" when absent) and the text of its previous       *)
(* sibling when that sibling is a leaf ("None" otherwise).  The identity   *)
(* of a leaf, id(leaf), is its position in the sequence `leaves` of the    *)
(* leaves handed to mark so far.                                           *)
(***************************************************************************)
EXTENDS Integers, Sequences, FiniteSets, TLC

VARIABLES
    depth,                  \* BracketTracker.depth
    bracket_match,          \* BracketTracker.bracket_match: <<depth, closing kind>> -> id
    delimiters,             \* BracketTracker.delimiters: id -> priority
    previous,               \* BracketTracker.previous: id, or NoLeaf for None
    for_loop_depths,        \* BracketTracker._for_loop_depths: Unset or a sequence
    lambda_argument_depths, \* BracketTracker._lambda_argument_depths: Unset or a sequence
    invisible,              \* BracketTracker.invisible: sequence of ids
    leaves,                 \* the leaves handed to mark, in call order
    leaf_bracket_depth,     \* leaf.bracket_depth of the leaves that carry one: id -> depth
    leaf_opening_bracket,   \* leaf.opening_bracket of the leaves that carry one: id -> id
    raised,                 \* the exception the last call ended with, or NoError
    faults,                 \* the exceptions raised so far on this tracker
    line,                   \* the logical line the caller is tracking
    pos,                    \* the caller's position in the line
    phase,                  \* the caller's step at that position
    cls_leaf,               \* the classifier's argument leaf
    cls_previous,           \* the classifier's argument previous (a leaf or NoPrev)
    cls_result,             \* what the classifier returned: <<before, after>> or <<>>
    target_versions,        \* lib2to3_parse's argument target_versions
    parse_outcome,          \* what drv.parse_string does with src_txt under each grammar
    grammars,               \* lib2to3_parse's local grammars
    consumed,               \* how many grammars the for loop has taken
    errors,                 \* lib2to3_parse's local errors: version -> InvalidInput
    parse_result,           \* what lib2to3_parse returned, or NoResult
    parse_raised,           \* what lib2to3_parse raised, or NoError
    attempts,               \* the grammars a driver was run with, in order
    parse_pc,               \* where lib2to3_parse is
    src_txt,                \* lib2to3_parse's argument src_txt, a sequence of characters
    driver_text,            \* the text handed to drv.parse_string
    src,                    \* parse_ast's argument src
    ast_outcome,            \* what ast.parse does with each (src, feature_version, type_comments)
    versions,               \* parse_ast's local versions
    type_comments,          \* the outer loop variable of parse_ast
    remaining,              \* the versions the inner loop has not taken yet
    first_error,            \* parse_ast's local first_error, or Unbound
    ast_result,             \* what parse_ast returned, or NoTree
    ast_raised,             \* what parse_ast raised, or NoSyntaxError
    ast_attempts,           \* the keys _parse_single_version was called with, in order
    cache,                  \* the lru_cache of _parse_single_version: key -> tree
    parser_runs,            \* the keys ast.parse was run with, in order
    single_calls,           \* the calls of _parse_single_version, in order
    calls,                  \* how many parse_ast calls were made
    ast_pc,                 \* where parse_ast is
    q_exclude,              \* max_delimiter_priority's argument exclude
    q_result,               \* what max_delimiter_priority did: [raised, value]
    ast_a,                  \* the first tree handed to stringify_ast
    ast_b,                  \* the second tree handed to stringify_ast
    seq_a,                  \* the lines stringify_ast yields for ast_a
    seq_b,                  \* the lines stringify_ast yields for ast_b
    stringified,            \* whether the two trees were stringified
    scan_leaves,            \* get_leaves_inside_matching_brackets's argument leaves
    scan_ids,               \* the ids it returned
    scan_pc                 \* whether it was called

trackerVars == <<depth, bracket_match, delimiters, previous, for_loop_depths,
                 lambda_argument_depths, invisible, leaves, leaf_bracket_depth,
                 leaf_opening_bracket, raised, faults>>
callerVars == <<line, pos, phase>>
classifyVars == <<cls_leaf, cls_previous, cls_result>>
parseVars == <<target_versions, parse_outcome, grammars, consumed, errors,
               parse_result, parse_raised, attempts, parse_pc, src_txt, driver_text>>
astVars == <<src, ast_outcome, versions, type_comments, remaining, first_error,
             ast_result, ast_raised, ast_attempts, cache, parser_runs, single_calls,
             calls, ast_pc>>
queryVars == <<q_exclude, q_result>>
stringifyVars == <<ast_a, ast_b, seq_a, seq_b, stringified>>
scanVars == <<scan_leaves, scan_ids, scan_pc>>
otherVars == <<astVars, queryVars, stringifyVars, scanVars>>
vars == <<trackerVars, callerVars, classifyVars, parseVars, otherVars>>

----------------------------------------------------------------------------
(* Bounds of the model.                                                    *)

MaxLeaves == 4
MaxDepth == 1
MaxLineLen == 2
MaxTextLen == 3
MaxMinor == 4
MaxCalls == 2
MaxStrLen == 4
MaxTargets == 2
MaxScanLen == 5

----------------------------------------------------------------------------
(* Token kinds and grammar symbols (black.nodes, blib2to3.pgen2.token).    *)

OPENING_BRACKETS == {"LPAR", "LSQB", "LBRACE"}
CLOSING_BRACKETS == {"RPAR", "RSQB", "RBRACE"}

BRACKET(t) ==
    CASE t = "LPAR" -> "RPAR"
      [] t = "LSQB" -> "RSQB"
      [] t = "LBRACE" -> "RBRACE"

MATH_OPERATORS ==
    {"VBAR", "CIRCUMFLEX", "AMPER", "LEFTSHIFT", "RIGHTSHIFT", "PLUS", "MINUS",
     "STAR", "SLASH", "DOUBLESLASH", "PERCENT", "AT", "TILDE", "DOUBLESTAR"}
COMPARATORS ==
    {"LESS", "GREATER", "EQEQUAL", "NOTEQUAL", "LESSEQUAL", "GREATEREQUAL"}
LOGIC_OPERATORS == {"and", "or"}
VARARGS_SPECIALS == {"STAR", "DOUBLESTAR", "SLASH"}
VARARGS_PARENTS == {"arglist", "argument", "trailer", "typedargslist", "varargslist"}
UNPACKING_PARENTS ==
    {"atom", "listmaker", "testlist_gexp", "testlist_star_expr", "subject_expr",
     "pattern"}

Leaf(t, v, p, gp, ps) ==
    [type |-> t, value |-> v, parent |-> p, grandparent |-> gp, prev_sibling |-> ps]

\* is_vararg(leaf, within) of black.nodes
is_vararg(leaf, within) ==
    IF leaf.type \notin VARARGS_SPECIALS \/ leaf.parent = "None"
    THEN FALSE
    ELSE IF leaf.parent = "star_expr"
         THEN leaf.grandparent # "None" /\ leaf.grandparent \in within
         ELSE leaf.parent \in within

----------------------------------------------------------------------------
(* The priority constants of brackets.py, lines 30-52.                     *)

COMPREHENSION_PRIORITY == 20
COMMA_PRIORITY == 18
TERNARY_PRIORITY == 16
LOGIC_PRIORITY == 14
STRING_PRIORITY == 12
COMPARATOR_PRIORITY == 10
DOT_PRIORITY == 1

MATH_PRIORITIES(t) ==
    CASE t = "VBAR" -> 9
      [] t = "CIRCUMFLEX" -> 8
      [] t = "AMPER" -> 7
      [] t \in {"LEFTSHIFT", "RIGHTSHIFT"} -> 6
      [] t \in {"PLUS", "MINUS"} -> 5
      [] t \in {"STAR", "SLASH", "DOUBLESLASH", "PERCENT", "AT"} -> 4
      [] t = "TILDE" -> 3
      [] t = "DOUBLESTAR" -> 2

----------------------------------------------------------------------------
(* The delimiter classifiers, as written in brackets.py.                   *)

NoPrev == [type |-> "None", value |-> "None", parent |-> "None",
           grandparent |-> "None", prev_sibling |-> "None"]

\* is_split_after_delimiter, lines 199-203
is_split_after_delimiter(leaf) ==
    IF leaf.type = "COMMA" THEN 5 ELSE 0

\* the name-like tail of is_split_before_delimiter, lines 227-259
SplitBeforeName(leaf, prev) ==
    IF leaf.type \notin {"NAME", "ASYNC"} THEN 0
    ELSE IF /\ \/ /\ leaf.value = "for"
                  /\ leaf.parent # "None"
                  /\ leaf.parent \in {"comp_for", "old_comp_for"}
               \/ leaf.type = "ASYNC"
            /\ leaf.prev_sibling # "async"
    THEN 2
    ELSE IF /\ leaf.value = "if"
            /\ leaf.parent # "None"
            /\ leaf.parent \in {"comp_if", "old_comp_if"}
    THEN 2
    ELSE IF leaf.value \in {"if", "else"} /\ leaf.parent = "test"
    THEN 1
    ELSE IF leaf.value = "is"
    THEN 4
    ELSE IF /\ leaf.value = "in"
            /\ leaf.parent \in {"comp_op", "comparison"}
            /\ ~(prev # NoPrev /\ prev.type = "NAME" /\ prev.value = "not")
    THEN 4
    ELSE IF /\ leaf.value = "not"
            /\ leaf.parent = "comp_op"
            /\ ~(prev # NoPrev /\ prev.type = "NAME" /\ prev.value = "is")
    THEN 4
    ELSE IF leaf.value \in LOGIC_OPERATORS /\ leaf.parent # "None"
    THEN 2
    ELSE 0

\* is_split_before_delimiter, lines 206-259
is_split_before_delimiter(leaf, prev) ==
    IF is_vararg(leaf, VARARGS_PARENTS \cup UNPACKING_PARENTS) THEN 0
    ELSE IF /\ leaf.type = "DOT"
            /\ leaf.parent # "None"
            /\ leaf.parent \notin {"import_from", "dotted_name"}
            /\ (prev = NoPrev \/ prev.type \in CLOSING_BRACKETS)
    THEN 5
    ELSE IF /\ leaf.type \in MATH_OPERATORS
            /\ leaf.parent # "None"
            /\ leaf.parent \notin {"factor", "star_expr"}
    THEN (IF leaf.type \in {"PLUS", "MINUS", "STAR"} THEN 1 ELSE 0)
    ELSE IF leaf.type \in COMPARATORS
    THEN 4
    ELSE IF leaf.type = "STRING" /\ prev # NoPrev /\ prev.type = "STRING"
    THEN 3
    ELSE SplitBeforeName(leaf, prev)

----------------------------------------------------------------------------
(* Values standing for Python's None, a missing attribute and no exception. *)

NoLeaf == 0
NoError == "none"
BracketMatchError == "BracketMatchError"
ValueError == "ValueError"
NL == "\n"
AttributeError == "AttributeError"

\* an attribute the instance does not have; reading it raises AttributeError
Unset == [set |-> FALSE, items |-> <<>>]
ListOf(s) == [set |-> TRUE, items |-> s]

Put(f, k, v) == [x \in (DOMAIN f) \cup {k} |-> IF x = k THEN v ELSE f[x]]
Drop(f, k) == [x \in (DOMAIN f) \ {k} |-> f[x]]
Last(s) == s[Len(s)]
Front(s) == SubSeq(s, 1, Len(s) - 1)

\* the leaf an id stands for, NoPrev for None
LeafOf(id) == IF id = NoLeaf THEN NoPrev ELSE leaves[id]

----------------------------------------------------------------------------
(* BracketTracker.__init__, lines 191-196: the two depth stacks of lines   *)
(* 67-68 are not assigned, and a dataclass keeps a hand-written __init__.  *)

TrackerInit ==
    /\ depth = 0
    /\ bracket_match = <<>>
    /\ delimiters = <<>>
    /\ previous = NoLeaf
    /\ invisible = <<>>
    /\ for_loop_depths = Unset
    /\ lambda_argument_depths = Unset
    /\ leaves = <<>>
    /\ leaf_bracket_depth = <<>>
    /\ leaf_opening_bracket = <<>>
    /\ raised = NoError
    /\ faults = {}

\* the caller of the tracker and the classifier at rest
callerIdle == line = <<>> /\ pos = 0 /\ phase = "idle"
classifyIdle == cls_leaf = NoPrev /\ cls_previous = NoPrev /\ cls_result = <<>>

----------------------------------------------------------------------------
(* BracketTracker.mark, lines 71-103.                                      *)

\* mutant: the depth is not looked at
IsSkipped_anyDepth(leaf) ==
    \/ leaf.type = "COMMENT"
    \/ /\ leaf.type \in CLOSING_BRACKETS
       /\ <<depth, leaf.type>> \notin DOMAIN bracket_match

\* mutant: comments are marked as any other leaf
IsSkipped_strayOnly(leaf) ==
    /\ depth = 0
    /\ leaf.type \in CLOSING_BRACKETS
    /\ <<depth, leaf.type>> \notin DOMAIN bracket_match

\* mutant: only comments are skipped
IsSkipped_comment(leaf) == leaf.type = "COMMENT"

\* lines 73-78: a comment, or a closing bracket at depth 0 with no open record
IsSkipped(leaf) ==
    \/ leaf.type = "COMMENT"
    \/ /\ depth = 0
       /\ leaf.type \in CLOSING_BRACKETS
       /\ <<depth, leaf.type>> \notin DOMAIN bracket_match

\* line 81
DepthAfterClosing(d) == d - 1

\* mutant: the record of the match is the one that stays
PopMatch_others(bm, key) == [x \in {key} \cap DOMAIN bm |-> bm[x]]

\* mutant: the record is read but not removed
PopMatch_get(bm, key) == bm

\* line 82: bracket_match.pop(key, None) leaves the other records
PopMatch(bm, key) == Drop(bm, key)

\* line 99
RecordOpening(bm, d, leaf, id) == Put(bm, <<d, BRACKET(leaf.type)>>, id)

\* line 100
DepthAfterOpening(d) == d + 1

\* mutant: the depth is not looked at
DelimitersAfter_anyDepth(dl, d, leaf, id, prev) ==
    IF is_split_before_delimiter(leaf, LeafOf(prev)) # 0 /\ prev # NoLeaf
    THEN Put(dl, prev, is_split_before_delimiter(leaf, LeafOf(prev)))
    ELSE IF is_split_after_delimiter(leaf) # 0
         THEN Put(dl, id, is_split_after_delimiter(leaf))
         ELSE dl

\* lines 90-97: the delimiters after classifying leaf `id` at depth d
DelimitersAfter(dl, d, leaf, id, prev) ==
    IF d # 0 THEN dl
    ELSE IF is_split_before_delimiter(leaf, LeafOf(prev)) # 0 /\ prev # NoLeaf
         THEN Put(dl, prev, is_split_before_delimiter(leaf, LeafOf(prev)))
         ELSE IF is_split_after_delimiter(leaf) # 0
              THEN Put(dl, id, is_split_after_delimiter(leaf))
              ELSE dl

\* lines 87-88 and 101-102
InvisibleAfter(inv, leaf, id) ==
    IF leaf.type \in CLOSING_BRACKETS \cup OPENING_BRACKETS /\ leaf.value = ""
    THEN Append(inv, id)
    ELSE inv

\* lines 83-84: the pop found no opening bracket
MatchFails(bm, d, leaf) == <<d, leaf.type>> \notin DOMAIN bm

\* the exception is recorded as the call's outcome
Raise(e) ==
    /\ raised' = e
    /\ faults' = faults \cup {e}

Return ==
    /\ raised' = NoError
    /\ UNCHANGED faults

mark(leaf) ==
    LET id == Len(leaves) + 1
        closing == leaf.type \in CLOSING_BRACKETS
        opening == leaf.type \in OPENING_BRACKETS
        d1 == IF closing THEN DepthAfterClosing(depth) ELSE depth
    IN  /\ leaves' = Append(leaves, leaf)
        /\ UNCHANGED <<for_loop_depths, lambda_argument_depths>>
        /\ IF IsSkipped(leaf)
           THEN /\ Return
                /\ UNCHANGED <<depth, bracket_match, delimiters, previous, invisible,
                               leaf_bracket_depth, leaf_opening_bracket>>
           ELSE IF closing /\ MatchFails(bracket_match, d1, leaf)
           THEN /\ Raise(BracketMatchError)
                /\ depth' = d1
                /\ UNCHANGED <<bracket_match, delimiters, previous, invisible,
                               leaf_bracket_depth, leaf_opening_bracket>>
           ELSE /\ Return
                /\ leaf_opening_bracket' =
                       IF closing
                       THEN Put(leaf_opening_bracket, id, bracket_match[<<d1, leaf.type>>])
                       ELSE leaf_opening_bracket
                /\ leaf_bracket_depth' = Put(leaf_bracket_depth, id, d1)
                /\ delimiters' = DelimitersAfter(delimiters, d1, leaf, id, previous)
                /\ bracket_match' =
                       IF opening
                       THEN RecordOpening(bracket_match, d1, leaf, id)
                       ELSE IF closing
                            THEN PopMatch(bracket_match, <<d1, leaf.type>>)
                            ELSE bracket_match
                /\ depth' = IF opening THEN DepthAfterOpening(d1) ELSE d1
                /\ invisible' = InvisibleAfter(invisible, leaf, id)
                /\ previous' = id

----------------------------------------------------------------------------
(* The for/lambda pseudo-depth operations, lines 135-186.                  *)

IsFor(leaf) == leaf.type = "NAME" /\ leaf.value = "for"
IsIn(leaf) == leaf.type = "NAME" /\ leaf.value = "in"
IsLambda(leaf) == leaf.type = "NAME" /\ leaf.value = "lambda"
IsColon(leaf) == leaf.type = "COLON"

\* lines 150-155 and 177-181: the stack is non-empty and its top is the depth
TopIsDepth(stack, d) == Len(stack.items) > 0 /\ Last(stack.items) = d

\* lines 135-146
maybe_increment_for_loop_variable(leaf) ==
    /\ UNCHANGED <<bracket_match, delimiters, previous, invisible, leaves,
                   leaf_bracket_depth, leaf_opening_bracket, lambda_argument_depths>>
    /\ IF IsFor(leaf)
       THEN /\ depth' = depth + 1
            /\ IF for_loop_depths.set
               THEN /\ for_loop_depths' = ListOf(Append(for_loop_depths.items, depth + 1))
                    /\ Return
               ELSE /\ UNCHANGED for_loop_depths
                    /\ Raise(AttributeError)
       ELSE /\ Return
            /\ UNCHANGED <<depth, for_loop_depths>>

\* lines 148-160
maybe_decrement_after_for_loop_variable(leaf) ==
    /\ UNCHANGED <<bracket_match, delimiters, previous, invisible, leaves,
                   leaf_bracket_depth, leaf_opening_bracket, lambda_argument_depths>>
    /\ IF ~for_loop_depths.set
       THEN /\ Raise(AttributeError)
            /\ UNCHANGED <<depth, for_loop_depths>>
       ELSE IF TopIsDepth(for_loop_depths, depth) /\ IsIn(leaf)
       THEN /\ depth' = depth - 1
            /\ for_loop_depths' = ListOf(Front(for_loop_depths.items))
            /\ Return
       ELSE /\ Return
            /\ UNCHANGED <<depth, for_loop_depths>>

\* lines 162-173
maybe_increment_lambda_arguments(leaf) ==
    /\ UNCHANGED <<bracket_match, delimiters, previous, invisible, leaves,
                   leaf_bracket_depth, leaf_opening_bracket, for_loop_depths>>
    /\ IF IsLambda(leaf)
       THEN /\ depth' = depth + 1
            /\ IF lambda_argument_depths.set
               THEN /\ lambda_argument_depths' =
                           ListOf(Append(lambda_argument_depths.items, depth + 1))
                    /\ Return
               ELSE /\ UNCHANGED lambda_argument_depths
                    /\ Raise(AttributeError)
       ELSE /\ Return
            /\ UNCHANGED <<depth, lambda_argument_depths>>

\* lines 175-186
maybe_decrement_after_lambda_arguments(leaf) ==
    /\ UNCHANGED <<bracket_match, delimiters, previous, invisible, leaves,
                   leaf_bracket_depth, leaf_opening_bracket, for_loop_depths>>
    /\ IF ~lambda_argument_depths.set
       THEN /\ Raise(AttributeError)
            /\ UNCHANGED <<depth, lambda_argument_depths>>
       ELSE IF TopIsDepth(lambda_argument_depths, depth) /\ IsColon(leaf)
       THEN /\ depth' = depth - 1
            /\ lambda_argument_depths' = ListOf(Front(lambda_argument_depths.items))
            /\ Return
       ELSE /\ Return
            /\ UNCHANGED <<depth, lambda_argument_depths>>

\* line 112-114
any_open_brackets == DOMAIN bracket_match # {}

----------------------------------------------------------------------------
(* The leaves the specifications draw from.                                *)

Name(v, p) == Leaf("NAME", v, p, "None", "None")
Tok(t, v, p) == Leaf(t, v, p, "None", "None")

LfLpar == Tok("LPAR", "(", "atom")
LfRpar == Tok("RPAR", ")", "atom")
LfLsqb == Tok("LSQB", "[", "atom")
LfRsqb == Tok("RSQB", "]", "atom")
LfComma == Tok("COMMA", ",", "exprlist")
LfComment == Tok("COMMENT", "#", "None")
LfColon == Tok("COLON", ":", "for_stmt")
LfPlus == Tok("PLUS", "+", "arith_expr")
LfAnd == Name("and", "and_test")
LfFor == Name("for", "for_stmt")
LfIn == Name("in", "for_stmt")
LfLambda == Name("lambda", "lambdef")
LfX == Name("x", "exprlist")

\* the leaves handed to mark by an arbitrary caller
TrackLeaves == {LfLpar, LfRpar, LfLsqb, LfRsqb, LfComma, LfComment, LfAnd, LfX}

\* the leaves handed to the pseudo-depth operations by an arbitrary caller
PseudoLeaves == {LfFor, LfIn, LfLambda, LfColon}

----------------------------------------------------------------------------
(* The grammars and the target versions (blib2to3.pygram, black.mode).     *)

GrammarNames ==
    {"python_grammar_async_keywords", "python_grammar", "python_grammar_soft_keywords"}

\* Grammar.version, a tuple
GrammarVersion(g) ==
    CASE g = "python_grammar" -> <<3, 0>>
      [] g = "python_grammar_async_keywords" -> <<3, 7>>
      [] g = "python_grammar_soft_keywords" -> <<3, 10>>

TargetVersions == {"PY36", "PY37", "PY310"}

VERSION_TO_FEATURES(tv) ==
    CASE tv = "PY36" -> {"ASYNC_IDENTIFIERS"}
      [] tv = "PY37" -> {"ASYNC_KEYWORDS"}
      [] tv = "PY310" -> {"ASYNC_KEYWORDS", "PATTERN_MATCHING"}

supports_feature(tvs, feature) == \A tv \in tvs : feature \in VERSION_TO_FEATURES(tv)

\* Python's order on tuples of integers
RECURSIVE TupleLess(_, _)
TupleLess(a, b) ==
    IF Len(a) = 0 THEN Len(b) > 0
    ELSE IF Len(b) = 0 THEN FALSE
    ELSE IF a[1] # b[1] THEN a[1] < b[1]
    ELSE TupleLess(Tail(a), Tail(b))

----------------------------------------------------------------------------
(* get_grammars, parsing.py lines 25-48.                                   *)

\* mutant: every grammar is a candidate
OptionalGrammar_always(cond, g) == <<g>>

\* lines 41-46: a grammar is appended when its condition holds
OptionalGrammar(cond, g) == IF cond THEN <<g>> ELSE <<>>

\* mutant: the classic grammar is left out by the wrong flag
get_grammars_classicByIdentifiers(tvs) ==
    IF tvs = {}
    THEN <<"python_grammar_async_keywords", "python_grammar",
           "python_grammar_soft_keywords">>
    ELSE OptionalGrammar(~supports_feature(tvs, "ASYNC_IDENTIFIERS")
                            /\ ~supports_feature(tvs, "PATTERN_MATCHING"),
                         "python_grammar_async_keywords")
         \o OptionalGrammar(~supports_feature(tvs, "ASYNC_IDENTIFIERS"), "python_grammar")
         \o OptionalGrammar(supports_feature(tvs, "PATTERN_MATCHING"),
                            "python_grammar_soft_keywords")

get_grammars(tvs) ==
    IF tvs = {}
    THEN <<"python_grammar_async_keywords", "python_grammar",
           "python_grammar_soft_keywords">>
    ELSE OptionalGrammar(~supports_feature(tvs, "ASYNC_IDENTIFIERS")
                            /\ ~supports_feature(tvs, "PATTERN_MATCHING"),
                         "python_grammar_async_keywords")
         \o OptionalGrammar(~supports_feature(tvs, "ASYNC_KEYWORDS"), "python_grammar")
         \o OptionalGrammar(supports_feature(tvs, "PATTERN_MATCHING"),
                            "python_grammar_soft_keywords")

----------------------------------------------------------------------------
(* lib2to3_parse, parsing.py lines 51-98.  The driver is outside: what it  *)
(* does with the source under each grammar is drawn when the call starts.  *)

NoResult == [grammar |-> "None", root |-> "None", wrapped |-> FALSE]
ParseOutcomes == {"Node", "Leaf", "ParseError", "TokenError"}
ParseFailures == {"ParseError", "TokenError"}

\* lines 79-81 and 86-88: the InvalidInput built from a grammar's failure
InvalidInput(g, cause) == [error |-> "InvalidInput", grammar |-> g, cause |-> cause]
AssertionError == [error |-> "AssertionError", grammar |-> "None", cause |-> "None"]
NoParseError == [error |-> "None", grammar |-> "None", cause |-> "None"]

\* lines 96-98: a leaf is wrapped in a file_input node
Wrapped(g, root) == [grammar |-> g, root |-> root, wrapped |-> (root = "Leaf")]

\* mutant: the loop goes on after a parse
AfterAttempt_noBreak(outcome) == "loop"

\* line 70: break after a parse; the except clauses fall back into the loop
AfterAttempt(outcome) == IF outcome \in ParseFailures THEN "loop" ELSE "returned"

\* mutant: the lowest version
MaxVersion_min(vs) ==
    CHOOSE v \in vs : \A u \in vs : u = v \/ TupleLess(v, u)

\* line 93: max(errors)
MaxVersion(vs) ==
    CHOOSE v \in vs : \A u \in vs : u = v \/ TupleLess(u, v)

\* lines 55-56: a newline is appended to a text that does not end with one
endswith(text, c) == Len(text) > 0 /\ text[Len(text)] = c

\* mutant: the text is handed over as it came
WithTrailingNewline_asis(text) == text

WithTrailingNewline(text) == IF ~endswith(text, NL) THEN Append(text, NL) ELSE text

\* the source texts lib2to3_parse is called with
SourceTexts == UNION { [1..n -> {"a", NL}] : n \in 0..MaxTextLen }

----------------------------------------------------------------------------
(* parse_ast, max_delimiter_priority, stringify_ast and                    *)
(* get_leaves_inside_matching_brackets at rest.                            *)

NoKey == [src |-> "None", version |-> 0, type_comments |-> FALSE]
NoTree == [tree |-> "None", of |-> NoKey]
NoSyntaxError == [error |-> "None", arg |-> NoKey]
Unbound == [error |-> "unbound", arg |-> NoKey]
NoAnswer == [raised |-> "pending", value |-> 0]
NoAst == [cls |-> "None", fields |-> <<>>]

astIdle ==
    /\ src = "None"
    /\ ast_outcome = <<>>
    /\ versions = <<>>
    /\ type_comments = TRUE
    /\ remaining = <<>>
    /\ first_error = Unbound
    /\ ast_result = NoTree
    /\ ast_raised = NoSyntaxError
    /\ ast_attempts = <<>>
    /\ cache = <<>>
    /\ parser_runs = <<>>
    /\ single_calls = <<>>
    /\ calls = 0
    /\ ast_pc = "idle"

queryIdle == q_exclude = {} /\ q_result = NoAnswer

stringifyIdle ==
    /\ ast_a = NoAst
    /\ ast_b = NoAst
    /\ seq_a = <<>>
    /\ seq_b = <<>>
    /\ stringified = FALSE

scanIdle == scan_leaves = <<>> /\ scan_ids = {} /\ scan_pc = "idle"

otherIdle == astIdle /\ queryIdle /\ stringifyIdle /\ scanIdle

parseIdle ==
    /\ target_versions = {}
    /\ parse_outcome = <<>>
    /\ grammars = <<>>
    /\ consumed = 0
    /\ errors = <<>>
    /\ parse_result = NoResult
    /\ parse_raised = NoParseError
    /\ attempts = <<>>
    /\ parse_pc = "idle"
    /\ src_txt = <<>>
    /\ driver_text = <<>>

InitParse ==
    /\ TrackerInit
    /\ callerIdle
    /\ classifyIdle
    /\ target_versions \in SUBSET TargetVersions
    /\ parse_outcome \in [GrammarNames -> ParseOutcomes]
    /\ grammars = <<>>
    /\ consumed = 0
    /\ errors = <<>>
    /\ parse_result = NoResult
    /\ parse_raised = NoParseError
    /\ attempts = <<>>
    /\ parse_pc = "called"
    /\ src_txt \in SourceTexts
    /\ driver_text = <<>>
    /\ otherIdle

\* lines 55-65
ParseStart ==
    /\ parse_pc = "called"
    /\ driver_text' = WithTrailingNewline(src_txt)
    /\ grammars' = get_grammars(target_versions)
    /\ errors' = <<>>
    /\ parse_pc' = "loop"
    /\ UNCHANGED <<target_versions, parse_outcome, consumed, parse_result,
                   parse_raised, attempts, src_txt, trackerVars, callerVars, classifyVars, otherVars>>

\* lines 66-88 and 96-98: one turn of the loop
TryGrammar ==
    /\ parse_pc = "loop"
    /\ consumed < Len(grammars)
    /\ LET g == grammars[consumed + 1]
           outcome == parse_outcome[g]
       IN  /\ consumed' = consumed + 1
           /\ attempts' = Append(attempts, g)
           /\ parse_pc' = AfterAttempt(outcome)
           /\ IF outcome \in ParseFailures
              THEN /\ errors' = Put(errors, GrammarVersion(g), InvalidInput(g, outcome))
                   /\ UNCHANGED parse_result
              ELSE /\ parse_result' = Wrapped(g, outcome)
                   /\ UNCHANGED errors
    /\ UNCHANGED <<target_versions, parse_outcome, grammars, parse_raised,
                   src_txt, driver_text, trackerVars, callerVars, classifyVars, otherVars>>

\* lines 90-94: the loop ran out of grammars
AllFailed ==
    /\ parse_pc = "loop"
    /\ consumed >= Len(grammars)
    /\ parse_raised' = IF Cardinality(DOMAIN errors) >= 1
                       THEN errors[MaxVersion(DOMAIN errors)]
                       ELSE AssertionError
    /\ parse_pc' = "raised"
    /\ UNCHANGED <<target_versions, parse_outcome, grammars, consumed, errors,
                   parse_result, attempts, src_txt, driver_text, trackerVars, callerVars, classifyVars, otherVars>>

NextParse ==
    \/ ParseStart
    \/ TryGrammar
    \/ AllFailed

SpecParse == InitParse /\ [][NextParse]_vars

----------------------------------------------------------------------------
(* parse_ast and _parse_single_version, parsing.py lines 121-147.  MaxMinor *)
(* stands for sys.version_info[1].  ast.parse is outside: what it does     *)
(* with each (src, feature_version, type_comments) is drawn at the start.  *)

MinMinor == 3
Sources == {"s1", "s2"}

\* line 135
Versions == [i \in 1..(MaxMinor - MinMinor + 1) |-> <<3, MinMinor + i - 1>>]

RECURSIVE reversed(_)
reversed(s) == IF s = <<>> THEN <<>> ELSE Append(reversed(Tail(s)), Head(s))

\* line 141: what parse_ast passes as version, version[1] in Python's indexing
FeatureVersion(version) == version[2]

\* the arguments of _parse_single_version, the key of its lru_cache
Key(s, v, tc) == [src |-> s, version |-> v, type_comments |-> tc]
Keys == {Key(s, m, tc) : s \in Sources, m \in MinMinor..MaxMinor, tc \in BOOLEAN}
AstOutcomes == {"AST", "SyntaxError"}

Tree(key) == [tree |-> "AST", of |-> key]
SyntaxErrorOf(key) == [error |-> "SyntaxError", arg |-> key]
\* line 147: SyntaxError(first_error)
SyntaxErrorFrom(e) == [error |-> "SyntaxError", arg |-> e]
UnboundLocalError == [error |-> "UnboundLocalError", arg |-> NoKey]

\* one call of _parse_single_version: its arguments and what came out of it
SingleCall(key, out) == [key |-> key, out |-> out]

\* mutant: nothing is kept
CacheAfter_never(c, key, hit, outcome) == c

\* line 121: lru_cache stores the value a call returned under its arguments;
\* a call that raised stores nothing
CacheAfter(c, key, hit, outcome) ==
    IF ~hit /\ outcome = "AST" THEN Put(c, key, Tree(key)) ELSE c

\* mutant: every failure is kept
FirstErrorAfter_always(fe, tc, e) == e

\* lines 143-145
FirstErrorAfter(fe, tc, e) == IF tc THEN e ELSE fe

InitAst ==
    /\ TrackerInit
    /\ callerIdle
    /\ classifyIdle
    /\ parseIdle
    /\ queryIdle
    /\ stringifyIdle
    /\ scanIdle
    /\ src = "None"
    /\ ast_outcome \in [Keys -> AstOutcomes]
    /\ versions = <<>>
    /\ type_comments = TRUE
    /\ remaining = <<>>
    /\ first_error = Unbound
    /\ ast_result = NoTree
    /\ ast_raised = NoSyntaxError
    /\ ast_attempts = <<>>
    /\ cache = <<>>
    /\ parser_runs = <<>>
    /\ single_calls = <<>>
    /\ calls = 0
    /\ ast_pc = "idle"

astFrame == <<trackerVars, callerVars, classifyVars, parseVars, queryVars,
              stringifyVars, scanVars>>

\* lines 134-138: a call of parse_ast up to the first turn of the loops
ParseAstCall ==
    /\ ast_pc \in {"idle", "returned", "raised"}
    /\ calls < MaxCalls
    /\ \E s \in Sources : src' = s
    /\ versions' = Versions
    /\ type_comments' = TRUE
    /\ remaining' = reversed(Versions)
    /\ first_error' = Unbound
    /\ ast_result' = NoTree
    /\ ast_raised' = NoSyntaxError
    /\ ast_attempts' = <<>>
    /\ calls' = calls + 1
    /\ ast_pc' = "loop"
    /\ UNCHANGED <<ast_outcome, cache, parser_runs, single_calls, astFrame>>

\* lines 137-145 with 121-131: one turn of the inner loop.  lru_cache keeps
\* what the function returned; a call that raised leaves no entry.
TryVersion ==
    /\ ast_pc = "loop"
    /\ LET version == Head(remaining)
           key == Key(src, FeatureVersion(version), type_comments)
           hit == key \in DOMAIN cache
           outcome == IF hit THEN "AST" ELSE ast_outcome[key]
           rest == Tail(remaining)
       IN  /\ ast_attempts' = Append(ast_attempts, key)
           /\ parser_runs' = IF hit THEN parser_runs ELSE Append(parser_runs, key)
           /\ cache' = CacheAfter(cache, key, hit, outcome)
           /\ single_calls' = Append(single_calls,
                  SingleCall(key, IF outcome = "AST"
                                  THEN (IF hit THEN cache[key] ELSE Tree(key))
                                  ELSE SyntaxErrorOf(key)))
           /\ IF outcome = "AST"
              THEN /\ ast_result' = IF hit THEN cache[key] ELSE Tree(key)
                   /\ ast_pc' = "returned"
                   /\ UNCHANGED <<first_error, type_comments, remaining>>
              ELSE /\ first_error' =
                          FirstErrorAfter(first_error, type_comments, SyntaxErrorOf(key))
                   /\ UNCHANGED ast_result
                   /\ IF rest # <<>>
                      THEN /\ remaining' = rest
                           /\ ast_pc' = "loop"
                           /\ UNCHANGED type_comments
                      ELSE IF type_comments
                      THEN /\ type_comments' = FALSE
                           /\ remaining' = reversed(versions)
                           /\ ast_pc' = "loop"
                      ELSE /\ remaining' = rest
                           /\ ast_pc' = "exhausted"
                           /\ UNCHANGED type_comments
    /\ UNCHANGED <<src, ast_outcome, versions, ast_raised, calls, astFrame>>

\* line 147
RaiseFirstError ==
    /\ ast_pc = "exhausted"
    /\ ast_raised' = IF first_error = Unbound
                     THEN UnboundLocalError
                     ELSE SyntaxErrorFrom(first_error)
    /\ ast_pc' = "raised"
    /\ UNCHANGED <<src, ast_outcome, versions, type_comments, remaining, first_error,
                   ast_result, ast_attempts, cache, parser_runs, single_calls, calls,
                   astFrame>>

NextAst ==
    \/ ParseAstCall
    \/ TryVersion
    \/ RaiseFirstError

SpecAst == InitAst /\ [][NextAst]_vars

----------------------------------------------------------------------------
(* Strings as sequences of characters, with the str methods _normalize     *)
(* uses.  The characters are a space, a newline and letters.               *)

Whitespace == {" ", NL}

RECURSIVE lstrip(_)
lstrip(text) ==
    IF text # <<>> /\ Head(text) \in Whitespace THEN lstrip(Tail(text)) ELSE text

RECURSIVE rstrip(_)
rstrip(text) ==
    IF text # <<>> /\ Last(text) \in Whitespace THEN rstrip(Front(text)) ELSE text

strip(text) == rstrip(lstrip(text))

\* str.splitlines: the lines without their line ends, no empty last line
RECURSIVE splitlines(_)
splitlines(text) ==
    IF text = <<>>
    THEN <<>>
    ELSE IF \E i \in 1..Len(text) : text[i] = NL
         THEN LET i == CHOOSE k \in 1..Len(text) :
                           text[k] = NL /\ \A j \in 1..(k - 1) : text[j] # NL
              IN  <<SubSeq(text, 1, i - 1)>> \o splitlines(SubSeq(text, i + 1, Len(text)))
         ELSE <<text>>

\* str.join
RECURSIVE join(_, _)
join(sep, parts) ==
    IF parts = <<>> THEN <<>>
    ELSE IF Len(parts) = 1 THEN parts[1]
    ELSE parts[1] \o sep \o join(sep, Tail(parts))

\* mutant: the value is kept as it is
_normalize_asis(lineend, value) == value

\* parsing.py lines 150-157
_normalize(lineend, value) ==
    LET lines == splitlines(value)
        stripped == [i \in 1..Len(lines) |-> strip(lines[i])]
    IN  strip(join(lineend, stripped))

----------------------------------------------------------------------------
(* ast nodes.  A node is [cls, fields]: its class name and its fields in   *)
(* the order of _fields, each a pair of the name and the value.  A value   *)
(* is a list of nodes, a node, a str or None.                              *)

Node(cls, fields) == [cls |-> cls, fields |-> fields]
VList(items) == [kind |-> "list", items |-> items]
VNode(n) == [kind |-> "node", node |-> n]
VStr(text) == [kind |-> "str", s |-> text]
VNone == [kind |-> "None"]

Module(body) == Node("Module", <<<<"body", VList(body)>>, <<"type_ignores", VList(<<>>)>>>>)
Expr(value) == Node("Expr", <<<<"value", VNode(value)>>>>)
Constant(value, kind) == Node("Constant", <<<<"value", VStr(value)>>, <<"kind", kind>>>>)
AstName(id, ctx) == Node("Name", <<<<"id", VStr(<<id>>)>>, <<"ctx", VNode(Node(ctx, <<>>))>>>>)
AstTuple(elts, ctx) ==
    Node("Tuple", <<<<"elts", VList(elts)>>, <<"ctx", VNode(Node(ctx, <<>>))>>>>)
Delete(targets) == Node("Delete", <<<<"targets", VList(targets)>>>>)
BinOp(left, op, right) ==
    Node("BinOp", <<<<"left", VNode(left)>>, <<"op", VNode(Node(op, <<>>))>>,
                    <<"right", VNode(right)>>>>)

FieldNames(node) == {node.fields[i][1] : i \in 1..Len(node.fields)}
Field(node, name) ==
    node.fields[CHOOSE i \in 1..Len(node.fields) : node.fields[i][1] = name][2]
IsAST(item) == "cls" \in DOMAIN item

\* the field names of the nodes above in the order of sorted()
FieldOrder ==
    <<"body", "ctx", "elts", "id", "kind", "left", "op", "right", "targets",
      "type_ignores", "value">>

InFields(node, name) == name \in FieldNames(node)

\* line 186: sorted(node._fields)
sorted_fields(node) == SelectSeq(FieldOrder, LAMBDA name : InFields(node, name))

----------------------------------------------------------------------------
(* stringify_ast, parsing.py lines 160-243.  A line it yields is           *)
(* [indent, text]: the number of four-space indents and the pieces of the  *)
(* text after them.                                                        *)

Line(indent, text) == [indent |-> indent, text |-> text]

\* repr of a str of these characters, and of None
RECURSIVE Escaped(_)
Escaped(text) ==
    IF text = <<>> THEN <<>>
    ELSE (IF Head(text) = NL THEN <<"\\", "n">> ELSE <<Head(text)>>) \o Escaped(Tail(text))

Repr(value) ==
    IF value.kind = "str" THEN <<"'">> \o Escaped(value.s) \o <<"'">> ELSE <<"None">>

\* value.__class__.__name__
TypeName(value) == IF value.kind = "str" THEN "str" ELSE "NoneType"

\* mutant: the class of a node is not told
ClassName_hidden(node) == "AST"

\* node.__class__.__name__
ClassName(node) == node.cls

\* lines 174-182: the u prefix of a string constant is dropped, in the node
IsUString(node) ==
    /\ node.cls = "Constant"
    /\ Field(node, "value").kind = "str"
    /\ Field(node, "kind") = VStr(<<"u">>)

WithoutUKind(node) ==
    IF IsUString(node)
    THEN Node(node.cls, [i \in 1..Len(node.fields) |->
                            IF node.fields[i][1] = "kind"
                            THEN <<"kind", VNone>>
                            ELSE node.fields[i]])
    ELSE node

\* lines 220-228: a str constant that is the value of an expression statement
IsDocstring(node, name, value, parent_stack) ==
    /\ node.cls = "Constant"
    /\ name = "value"
    /\ value.kind = "str"
    /\ Len(parent_stack) >= 2
    /\ Last(parent_stack) = "Expr"

\* lines 219-237
Normalized(node, name, value, parent_stack) ==
    IF IsDocstring(node, name, value, parent_stack)
    THEN VStr(_normalize(<<NL>>, value.s))
    ELSE IF name = "type_comment" /\ value.kind = "str"
         THEN VStr(rstrip(value.s))
         ELSE value

\* mutant: a tuple among the targets is taken as any other node
IsParenthesizedTarget_never(node, name, item) == FALSE

\* lines 202-206
IsParenthesizedTarget(node, name, item) ==
    /\ name = "targets"
    /\ node.cls = "Delete"
    /\ item.cls = "Tuple"

RECURSIVE _stringify_ast(_, _)
RECURSIVE StringifyItems(_, _, _, _)
RECURSIVE StringifyElts(_, _, _)
RECURSIVE StringifyFields(_, _, _)

\* lines 165-170
_stringify_ast_with_new_parent(node, parent_stack, new_parent) ==
    _stringify_ast(node, Append(parent_stack, new_parent.cls))

\* lines 207-210: the elements of a tuple among the targets of a del
StringifyElts(node, elts, parent_stack) ==
    IF elts = <<>>
    THEN <<>>
    ELSE _stringify_ast_with_new_parent(Head(elts), parent_stack, node)
         \o StringifyElts(node, Tail(elts), parent_stack)

\* lines 199-213: the items of a list-valued field
StringifyItems(node, name, items, parent_stack) ==
    IF items = <<>>
    THEN <<>>
    ELSE LET item == Head(items)
             out == IF ~IsAST(item)
                    THEN <<>>
                    ELSE IF IsParenthesizedTarget(node, name, item)
                         THEN StringifyElts(node, Field(item, "elts").items, parent_stack)
                         ELSE _stringify_ast_with_new_parent(item, parent_stack, node)
         IN  out \o StringifyItems(node, name, Tail(items), parent_stack)

\* lines 196-241: one field
StringifyField(node, name, parent_stack) ==
    LET value == Field(node, name)
    IN  <<Line(Len(parent_stack) + 1, <<name, "=">>)>>
        \o (CASE value.kind = "list" ->
                     StringifyItems(node, name, value.items, parent_stack)
               [] value.kind = "node" ->
                     _stringify_ast_with_new_parent(value.node, parent_stack, node)
               [] OTHER ->
                     <<Line(Len(parent_stack) + 1,
                            Repr(Normalized(node, name, value, parent_stack))
                                \o <<",  # ", TypeName(value)>>)>>)

\* lines 186-196: the fields in sorted order; a TypeIgnore shows none
StringifyFields(node, names, parent_stack) ==
    IF names = <<>> \/ node.cls = "TypeIgnore"
    THEN <<>>
    ELSE StringifyField(node, Head(names), parent_stack)
         \o StringifyFields(node, Tail(names), parent_stack)

\* lines 173-243
_stringify_ast(node0, parent_stack) ==
    LET node == WithoutUKind(node0)
    IN  <<Line(Len(parent_stack), <<ClassName(node), "(">>)>>
        \o StringifyFields(node, sorted_fields(node), parent_stack)
        \o <<Line(Len(parent_stack), <<")  # /", ClassName(node)>>)>>

\* lines 160-162
stringify_ast(node) == _stringify_ast(node, <<>>)

\* the tree after the call: the u kinds are gone from its string constants
RECURSIVE AfterStringify(_)
AfterStringify(node0) ==
    LET node == WithoutUKind(node0)
        after(value) ==
            CASE value.kind = "list" ->
                     VList([i \in 1..Len(value.items) |-> AfterStringify(value.items[i])])
              [] value.kind = "node" -> VNode(AfterStringify(value.node))
              [] OTHER -> value
    IN  Node(node.cls, [i \in 1..Len(node.fields) |->
                           <<node.fields[i][1], after(node.fields[i][2])>>])

----------------------------------------------------------------------------
(* Two trees are stringified, as a caller that compares them does.         *)

Chars == {" ", NL, "a"}
Strings == UNION { [1..n -> Chars] : n \in 0..MaxStrLen }

\* a module that is one docstring
DocTree(text, kind) == Module(<<Expr(Constant(text, kind))>>)
DocTrees == {DocTree(text, VNone) : text \in Strings}
           \cup {DocTree(<<"a">>, VStr(<<"u">>))}

\* a module that is one del statement
DelNames == {AstName("a", "Del"), AstName("b", "Del")}
DelTuples == {AstTuple(elts, "Del") : elts \in UNION { [1..n -> DelNames] : n \in 1..MaxTargets }}
DelElements == DelNames \cup DelTuples
DelTargets == UNION { [1..n -> DelElements] : n \in 1..MaxTargets }
DelTree(targets) == Module(<<Delete(targets)>>)
\* the statement as it is and with its targets in parentheses
DelPairs ==
    {<<DelTree(targets), DelTree(targets)>> : targets \in DelTargets}
    \cup {<<DelTree(<<AstTuple(targets, "Del")>>), DelTree(targets)>> :
             targets \in DelTargets}
DelTrees == {pair[1] : pair \in DelPairs}

\* a module that is one expression of one or two binary operators
Operators == {"Add", "Sub", "Mult"}
Operand(id) == AstName(id, "Load")
OpTree(expr) == Module(<<Expr(expr)>>)
OpExprs ==
    {BinOp(Operand("x"), op, Operand("y")) : op \in Operators}
    \cup {BinOp(BinOp(Operand("x"), op1, Operand("y")), op2, Operand("z")) :
             op1 \in Operators, op2 \in Operators}
OpTrees == {OpTree(expr) : expr \in OpExprs}

InitStringify ==
    /\ TrackerInit
    /\ callerIdle
    /\ classifyIdle
    /\ parseIdle
    /\ astIdle
    /\ queryIdle
    /\ scanIdle
    /\ \/ ast_a \in DocTrees /\ ast_b \in DocTrees
       \/ \E pair \in DelPairs : ast_a = pair[1] /\ ast_b = pair[2]
       \/ ast_a \in OpTrees /\ ast_b \in OpTrees
    /\ seq_a = <<>>
    /\ seq_b = <<>>
    /\ stringified = FALSE

Stringify ==
    /\ ~stringified
    /\ seq_a' = stringify_ast(ast_a)
    /\ seq_b' = stringify_ast(ast_b)
    /\ ast_a' = AfterStringify(ast_a)
    /\ ast_b' = AfterStringify(ast_b)
    /\ stringified' = TRUE
    /\ UNCHANGED <<trackerVars, callerVars, classifyVars, parseVars, astVars,
                   queryVars, scanVars>>

NextStringify == Stringify

SpecStringify == InitStringify /\ [][NextStringify]_vars


----------------------------------------------------------------------------
(* A caller that uses one tracker in any way, also after an exception.     *)

Init ==
    /\ TrackerInit
    /\ callerIdle
    /\ classifyIdle
    /\ parseIdle
    /\ otherIdle

Mark ==
    /\ Len(leaves) < MaxLeaves
    /\ \E leaf \in TrackLeaves : mark(leaf)
    /\ UNCHANGED <<callerVars, classifyVars, parseVars, otherVars>>

IncrementFor ==
    /\ depth < MaxDepth
    /\ \E leaf \in PseudoLeaves : maybe_increment_for_loop_variable(leaf)
    /\ UNCHANGED <<callerVars, classifyVars, parseVars, otherVars>>

DecrementFor ==
    /\ \E leaf \in PseudoLeaves : maybe_decrement_after_for_loop_variable(leaf)
    /\ UNCHANGED <<callerVars, classifyVars, parseVars, otherVars>>

IncrementLambda ==
    /\ depth < MaxDepth
    /\ \E leaf \in PseudoLeaves : maybe_increment_lambda_arguments(leaf)
    /\ UNCHANGED <<callerVars, classifyVars, parseVars, otherVars>>

DecrementLambda ==
    /\ \E leaf \in PseudoLeaves : maybe_decrement_after_lambda_arguments(leaf)
    /\ UNCHANGED <<callerVars, classifyVars, parseVars, otherVars>>

Next ==
    \/ Mark
    \/ IncrementFor
    \/ DecrementFor
    \/ IncrementLambda
    \/ DecrementLambda

Spec == Init /\ [][Next]_vars

----------------------------------------------------------------------------
(* A caller that tracks one logical line: for each leaf it calls the       *)
(* pseudo-depth decrements before mark (for an `in`, for a `:`) and the    *)
(* increments after mark (for a `lambda`, for a `for`).  An exception ends *)
(* the tracking of the line.                                               *)

LfY == Name("y", "exprlist")
LfPairs == Name("pairs", "for_stmt")
LfA == Name("a", "varargslist")
LfB == Name("b", "varargslist")
LfLambdaComma == Tok("COMMA", ",", "varargslist")
LfLambdaColon == Tok("COLON", ":", "lambdef")

LineLeaves == TrackLeaves \cup {LfFor, LfIn, LfLambda, LfColon, LfPlus}

\* for x in pairs, for x, y in pairs, with and without the colon
ForLines ==
    { <<LfFor>> \o targets \o <<LfIn, LfPairs>> \o tail :
        targets \in {<<LfX>>, <<LfX, LfComma, LfY>>},
        tail \in {<< >>, <<LfColon>>} }

\* lambda a: a + b, lambda a, b: a + b
LambdaLines ==
    { <<LfLambda>> \o args \o <<LfLambdaColon, LfA, LfPlus, LfB>> :
        args \in {<<LfA>>, <<LfA, LfLambdaComma, LfB>>} }

ShortLines == UNION { [1..n -> LineLeaves] : n \in 1..MaxLineLen }

Lines == ShortLines \cup ForLines \cup LambdaLines

InitLine ==
    /\ TrackerInit
    /\ line \in Lines
    /\ pos = 1
    /\ phase = "pre"
    /\ classifyIdle
    /\ parseIdle
    /\ otherIdle

\* what the caller does after a call, and where it goes next
AfterCall(next_phase, next_pos) ==
    IF raised' # NoError
    THEN phase' = "aborted" /\ pos' = pos
    ELSE phase' = next_phase /\ pos' = next_pos

CallerPre ==
    /\ phase = "pre"
    /\ IF IsIn(line[pos])
       THEN maybe_decrement_after_for_loop_variable(line[pos])
       ELSE IF IsColon(line[pos])
            THEN maybe_decrement_after_lambda_arguments(line[pos])
            ELSE UNCHANGED trackerVars
    /\ AfterCall("mark", pos)
    /\ UNCHANGED <<line, classifyVars, parseVars, otherVars>>

CallerMark ==
    /\ phase = "mark"
    /\ mark(line[pos])
    /\ AfterCall("post", pos)
    /\ UNCHANGED <<line, classifyVars, parseVars, otherVars>>

CallerPost ==
    /\ phase = "post"
    /\ IF IsLambda(line[pos])
       THEN maybe_increment_lambda_arguments(line[pos])
       ELSE IF IsFor(line[pos])
            THEN maybe_increment_for_loop_variable(line[pos])
            ELSE UNCHANGED trackerVars
    /\ IF pos = Len(line) THEN AfterCall("done", pos) ELSE AfterCall("pre", pos + 1)
    /\ UNCHANGED <<line, classifyVars, parseVars, otherVars>>

NextLine ==
    \/ CallerPre
    \/ CallerMark
    \/ CallerPost

SpecLine == InitLine /\ [][NextLine]_vars

----------------------------------------------------------------------------
(* The classifiers applied to one leaf and the leaf before it.             *)

LeafParents ==
    {"None", "arith_expr", "factor", "star_expr", "arglist", "atom", "trailer",
     "import_from", "dotted_name", "comparison", "comp_op", "comp_for",
     "old_comp_for", "for_stmt", "comp_if", "old_comp_if", "test", "if_stmt",
     "and_test", "or_test", "not_test", "lambdef"}

LeafTexts ==
    {"for", "if", "else", "is", "in", "not", "and", "or", "lambda", "x"}

ClassifyLeaves ==
    {Leaf(t, "op", p, gp, "None") :
        t \in MATH_OPERATORS \cup {"DOT"},
        p \in {"None", "arith_expr", "factor", "star_expr", "arglist", "trailer",
               "import_from", "dotted_name"},
        gp \in {"None", "arglist", "exprlist"}}
    \cup {Tok(t, "op", "comparison") : t \in COMPARATORS}
    \cup {Tok("STRING", "s", "atom"), Tok("NUMBER", "1", "atom")}
    \cup {Leaf("NAME", v, p, "None", ps) :
            v \in LeafTexts, p \in LeafParents, ps \in {"None", "async"}}
    \cup {Leaf("ASYNC", "async", p, "None", ps) :
            p \in {"comp_for", "async_stmt"}, ps \in {"None", "async", "x"}}
    \cup TrackLeaves \cup {LfColon}

ClassifyPrevious ==
    {NoPrev, LfRpar, LfX, Tok("STRING", "s", "atom"),
     Name("not", "comp_op"), Name("is", "comparison")}

InitClassify ==
    /\ TrackerInit
    /\ callerIdle
    /\ cls_leaf \in ClassifyLeaves
    /\ cls_previous \in ClassifyPrevious
    /\ cls_result = <<>>
    /\ parseIdle
    /\ otherIdle

Classify ==
    /\ cls_result = <<>>
    /\ cls_result' = <<is_split_before_delimiter(cls_leaf, cls_previous),
                       is_split_after_delimiter(cls_leaf)>>
    /\ UNCHANGED <<cls_leaf, cls_previous, trackerVars, callerVars, parseVars, otherVars>>

NextClassify == Classify

SpecClassify == InitClassify /\ [][NextClassify]_vars

----------------------------------------------------------------------------
(* max_delimiter_priority, lines 116-122, asked once of a tracker after    *)
(* the leaves of a line were marked.                                       *)

\* mutant: an empty iterable gives 0
max_default(values) ==
    IF values = {}
    THEN [raised |-> NoError, value |-> 0]
    ELSE [raised |-> NoError,
          value |-> CHOOSE v \in values : \A u \in values : u <= v]

\* Python's max of an iterable: ValueError when it is empty
max(values) ==
    IF values = {}
    THEN [raised |-> ValueError, value |-> 0]
    ELSE [raised |-> NoError,
          value |-> CHOOSE v \in values : \A u \in values : u <= v]

\* line 122
max_delimiter_priority(exclude) ==
    max({delimiters[k] : k \in {x \in DOMAIN delimiters : x \notin exclude}})

\* the ids a caller may exclude
LeafIDs == 1..MaxLeaves

Query ==
    /\ q_result = NoAnswer
    /\ \E exclude \in SUBSET LeafIDs :
           /\ q_exclude' = exclude
           /\ q_result' = max_delimiter_priority(exclude)
    /\ UNCHANGED <<trackerVars, callerVars, classifyVars, parseVars, astVars,
                   stringifyVars, scanVars>>

MarkLine ==
    /\ q_result = NoAnswer
    /\ Mark

NextQuery ==
    \/ MarkLine
    \/ Query

SpecQuery == Init /\ [][NextQuery]_vars

\* a caller that only marks
NextMark == Mark

----------------------------------------------------------------------------
(* get_leaves_inside_matching_brackets, lines 290-316.  The id of a leaf   *)
(* is its position in the sequence handed in.                              *)

\* lines 298-303: the index of the first opening bracket, 0 for StopIteration
start_index(lvs) ==
    IF \E i \in 1..Len(lvs) : lvs[i].type \in OPENING_BRACKETS
    THEN CHOOSE i \in 1..Len(lvs) :
             /\ lvs[i].type \in OPENING_BRACKETS
             /\ \A j \in 1..(i - 1) : lvs[j].type \notin OPENING_BRACKETS
    ELSE 0

\* mutant: the kind of the closing bracket is not looked at
ClosesTop_anyKind(bracket_stack, leaf) == bracket_stack # <<>>

\* line 311
ClosesTop(bracket_stack, leaf) ==
    bracket_stack # <<>> /\ leaf.type = Last(bracket_stack)[1]

\* lines 306-315: the loop from index i on
RECURSIVE ScanFrom(_, _, _, _)
ScanFrom(lvs, i, bracket_stack, ids) ==
    IF i > Len(lvs)
    THEN ids
    ELSE LET leaf == lvs[i]
             pushed == IF leaf.type \in OPENING_BRACKETS
                       THEN Append(bracket_stack, <<BRACKET(leaf.type), i>>)
                       ELSE bracket_stack
         IN  IF leaf.type \in CLOSING_BRACKETS
             THEN IF ClosesTop(pushed, leaf)
                  THEN ScanFrom(lvs, i + 1, Front(pushed),
                                ids \cup (Last(pushed)[2]..i))
                  ELSE ids
             ELSE ScanFrom(lvs, i + 1, pushed, ids)

get_leaves_inside_matching_brackets(lvs) ==
    IF start_index(lvs) = 0
    THEN {}
    ELSE ScanFrom(lvs, start_index(lvs), <<>>, {})

ScanLeaves == {LfLpar, LfRpar, LfLsqb, LfRsqb, LfX}

InitScan ==
    /\ TrackerInit
    /\ callerIdle
    /\ classifyIdle
    /\ parseIdle
    /\ astIdle
    /\ queryIdle
    /\ stringifyIdle
    /\ scan_leaves \in UNION { [1..n -> ScanLeaves] : n \in 0..MaxScanLen }
    /\ scan_ids = {}
    /\ scan_pc = "called"

Scan ==
    /\ scan_pc = "called"
    /\ scan_ids' = get_leaves_inside_matching_brackets(scan_leaves)
    /\ scan_pc' = "returned"
    /\ UNCHANGED <<scan_leaves, trackerVars, callerVars, classifyVars, parseVars,
                   astVars, queryVars, stringifyVars>>

NextScan == Scan

SpecScan == InitScan /\ [][NextScan]_vars

SpecMark == Init /\ [][NextMark]_vars

----------------------------------------------------------------------------
(* Bracket nesting of a leaf sequence, read off the token kinds alone.     *)

\* The stack of the positions of the open brackets after the first n leaves,
\* and whether every closing bracket so far closed the innermost open one.
RECURSIVE Nesting(_, _)
Nesting(seq, n) ==
    IF n = 0 THEN [ok |-> TRUE, open |-> <<>>]
    ELSE LET p == Nesting(seq, n - 1)
             t == seq[n].type
         IN  IF ~p.ok THEN p
             ELSE IF t \in OPENING_BRACKETS
                  THEN [ok |-> TRUE, open |-> Append(p.open, n)]
             ELSE IF t \in CLOSING_BRACKETS
                  THEN IF Len(p.open) > 0 /\ BRACKET(seq[Last(p.open)].type) = t
                       THEN [ok |-> TRUE, open |-> Front(p.open)]
                       ELSE [ok |-> FALSE, open |-> p.open]
             ELSE p

WellFormed(seq) ==
    Nesting(seq, Len(seq)).ok /\ Nesting(seq, Len(seq)).open = <<>>

----------------------------------------------------------------------------
(* C1: for any well-formed (properly nested, kind-matched) bracket         *)
(* sequence marked leaf by leaf on a fresh tracker, the tracker ends with  *)
(* depth 0 and an empty bracket_match (any_open_brackets() is false).      *)

C1_WellFormedEndsClosed ==
    WellFormed(leaves) => depth = 0 /\ bracket_match = <<>> /\ ~any_open_brackets

\* ( [ ] ) has been marked
C1_Witness ==
    /\ WellFormed(leaves)
    /\ Len(leaves) = 4
    /\ leaves[1].type = "LPAR"
    /\ leaves[2].type = "LSQB"
    /\ depth = 0

----------------------------------------------------------------------------
(* The depth a leaf of a line is to be stamped with: the open brackets     *)
(* around it plus the for/lambda spans it lies in, each span ending at its *)
(* terminator (`in`, `:`) met at the depth the span was opened at.         *)

SpanDepth(st) == st.open + Len(st.fors) + Len(st.lambdas)

\* the spans left once the terminators met at leaf `lf` have closed theirs
AfterTerminators(st, lf) ==
    LET fors1 == IF IsIn(lf) /\ Len(st.fors) > 0 /\ Last(st.fors) = SpanDepth(st)
                 THEN Front(st.fors) ELSE st.fors
        st1 == [st EXCEPT !.fors = fors1]
        lambdas1 == IF IsColon(lf) /\ Len(st1.lambdas) > 0
                       /\ Last(st1.lambdas) = SpanDepth(st1)
                    THEN Front(st1.lambdas) ELSE st1.lambdas
    IN  [st1 EXCEPT !.lambdas = lambdas1]

\* the open brackets and spans after leaf `lf`
AfterLeaf(st, lf) ==
    LET st1 == AfterTerminators(st, lf)
        st2 == [st1 EXCEPT !.open =
                   IF lf.type \in CLOSING_BRACKETS THEN @ - 1
                   ELSE IF lf.type \in OPENING_BRACKETS THEN @ + 1 ELSE @]
    IN  IF IsLambda(lf)
        THEN [st2 EXCEPT !.lambdas = Append(@, SpanDepth(st2) + 1)]
        ELSE IF IsFor(lf)
             THEN [st2 EXCEPT !.fors = Append(@, SpanDepth(st2) + 1)]
             ELSE st2

RECURSIVE Enclosing(_, _)
Enclosing(seq, n) ==
    IF n = 0 THEN [open |-> 0, fors |-> <<>>, lambdas |-> <<>>]
    ELSE AfterLeaf(Enclosing(seq, n - 1), seq[n])

\* the brackets and spans still open around leaf j of seq
ExpectedDepth(seq, j) ==
    SpanDepth(AfterTerminators(Enclosing(seq, j - 1), seq[j]))
        - (IF seq[j].type \in CLOSING_BRACKETS THEN 1 ELSE 0)

\* leaf j of seq lies in no for/lambda span
OutsideSpans(seq, j) ==
    LET st == AfterTerminators(Enclosing(seq, j - 1), seq[j])
    IN  st.fors = <<>> /\ st.lambdas = <<>>

Range(s) == {s[i] : i \in 1..Len(s)}

\* no bracket closes over a for/lambda span that was opened inside it
SpansClosedInside(seq) ==
    \A j \in 1..Len(seq) :
        seq[j].type \in CLOSING_BRACKETS =>
            LET st == AfterTerminators(Enclosing(seq, j - 1), seq[j])
            IN  \A m \in Range(st.fors) \cup Range(st.lambdas) : m < SpanDepth(st)

\* a line with well-formed brackets and spans
ValidLine(seq) == WellFormed(seq) /\ SpansClosedInside(seq)

----------------------------------------------------------------------------
(* C2: after tracking a logical line every leaf's bracket_depth is the     *)
(* count of the brackets still open around it (an opening and its closing  *)
(* bracket carry the depth outside the pair), the for/lambda shifts being  *)
(* undone by their terminators: a leaf marked after the terminator carries *)
(* no shift.  Stated for the lines whose brackets are well-formed and close  *)
(* over no span opened inside them: the line is tracked to its end and    *)
(* the depths are those.                                                   *)

C2_DepthIsOpenBrackets ==
    ValidLine(line) =>
        /\ phase # "aborted"
        /\ \A j \in DOMAIN leaf_bracket_depth :
               /\ leaf_bracket_depth[j] = ExpectedDepth(line, j)
               /\ OutsideSpans(line, j) =>
                      leaf_bracket_depth[j] = Len(Nesting(line, j - 1).open)
                          - (IF line[j].type \in CLOSING_BRACKETS THEN 1 ELSE 0)

----------------------------------------------------------------------------
(* C5: tracking `for x, y in pairs:` on a fresh tracker, the caller making *)
(* the pseudo-depth calls for `for` and `in` around mark: no comma between *)
(* `for` and `in` gets an entry in delimiters, no call raises, and the     *)
(* leaves from `in` on (the colon too) are stamped at the original depth.  *)

FirstIn(seq) == CHOOSE i \in 1..Len(seq) :
                    IsIn(seq[i]) /\ \A k \in 1..(i - 1) : ~IsIn(seq[k])

C5_ForLoopShielding ==
    line \in ForLines =>
        /\ raised = NoError
        /\ \A j \in 2..(FirstIn(line) - 1) :
               line[j].type = "COMMA" => j \notin DOMAIN delimiters
        /\ \A j \in DOMAIN leaf_bracket_depth :
               j >= FirstIn(line) => leaf_bracket_depth[j] = 0

----------------------------------------------------------------------------
(* C6: tracking `lambda a, b: a + b` on a fresh tracker, the caller making *)
(* the pseudo-depth calls for `lambda` and `:` around mark: no comma       *)
(* between `lambda` and `:` gets an entry in delimiters, and the `+` after *)
(* the `:` is classified at the original depth and gets its priority (on   *)
(* the leaf before it, where the line would break).                        *)

FirstColon(seq) == CHOOSE i \in 1..Len(seq) :
                       IsColon(seq[i]) /\ \A k \in 1..(i - 1) : ~IsColon(seq[k])
PlusPos(seq) == CHOOSE i \in 1..Len(seq) : seq[i].type = "PLUS"

C6_LambdaShielding ==
    line \in LambdaLines =>
        /\ raised = NoError
        /\ \A j \in 2..(FirstColon(line) - 1) :
               line[j].type = "COMMA" => j \notin DOMAIN delimiters
        /\ phase = "done" =>
               /\ leaf_bracket_depth[PlusPos(line)] = 0
               /\ (PlusPos(line) - 1) \in DOMAIN delimiters
               /\ delimiters[PlusPos(line) - 1] > 0

----------------------------------------------------------------------------
(* C4: the priorities the two classifiers return are the module's named    *)
(* priority constants, a strictly ordered scale without collisions: every  *)
(* delimiter class gets its own constant, above 0.                         *)

C4_NamedPriorities ==
    cls_result # <<>> =>
        LET before == cls_result[1]
            after == cls_result[2]
            lf == cls_leaf
            hasParent == lf.parent # "None"
        IN  /\ lf.type = "COMMA" => after = COMMA_PRIORITY
            /\ ( /\ lf.type = "NAME" /\ lf.value = "for"
                 /\ lf.parent \in {"comp_for", "old_comp_for"}
                 /\ lf.prev_sibling # "async" ) => before = COMPREHENSION_PRIORITY
            /\ ( /\ lf.type = "NAME" /\ lf.value \in {"if", "else"}
                 /\ lf.parent = "test" ) => before = TERNARY_PRIORITY
            /\ ( /\ lf.type = "NAME" /\ lf.value \in LOGIC_OPERATORS
                 /\ hasParent ) => before = LOGIC_PRIORITY
            /\ ( /\ lf.type = "STRING"
                 /\ cls_previous.type = "STRING" ) => before = STRING_PRIORITY
            /\ lf.type \in COMPARATORS => before = COMPARATOR_PRIORITY
            /\ ( /\ lf.type = "DOT" /\ hasParent
                 /\ lf.parent \notin {"import_from", "dotted_name"}
                 /\ (cls_previous = NoPrev \/ cls_previous.type \in CLOSING_BRACKETS)
               ) => before = DOT_PRIORITY
            /\ ( /\ lf.type \in MATH_OPERATORS /\ hasParent
                 /\ lf.parent \notin {"factor", "star_expr"}
                 /\ ~is_vararg(lf, VARARGS_PARENTS \cup UNPACKING_PARENTS)
               ) => before = MATH_PRIORITIES(lf.type)
            /\ COMPREHENSION_PRIORITY > COMMA_PRIORITY
            /\ COMMA_PRIORITY > TERNARY_PRIORITY
            /\ TERNARY_PRIORITY > LOGIC_PRIORITY
            /\ LOGIC_PRIORITY > STRING_PRIORITY
            /\ STRING_PRIORITY > COMPARATOR_PRIORITY
            /\ \A t \in MATH_OPERATORS : COMPARATOR_PRIORITY > MATH_PRIORITIES(t)
            /\ \A t \in MATH_OPERATORS : MATH_PRIORITIES(t) > 0
            /\ DOT_PRIORITY > 0

----------------------------------------------------------------------------
(* C7: mark of a closing bracket that is not skipped as a stray closer     *)
(* raises BracketMatchError whenever bracket_match has no record under     *)
(* (depth - 1, the leaf's kind), a closer of another kind than the         *)
(* innermost open bracket included; the leaf then gets no bracket_depth    *)
(* and no opening_bracket, no delimiter is registered and previous stays.  *)

C7_UnmatchedCloserRaises ==
    [][ Len(leaves') = Len(leaves) + 1 =>
          LET leaf == Last(leaves')
              id == Len(leaves')
          IN  ( /\ leaf.type \in CLOSING_BRACKETS
                /\ ~(depth = 0 /\ <<0, leaf.type>> \notin DOMAIN bracket_match)
                /\ <<depth - 1, leaf.type>> \notin DOMAIN bracket_match )
              => /\ raised' = BracketMatchError
                 /\ id \notin DOMAIN leaf_bracket_depth'
                 /\ id \notin DOMAIN leaf_opening_bracket'
                 /\ delimiters' = delimiters
                 /\ previous' = previous ]_vars

\* ( x ] has been marked: the `]` met an open `(`
C7_Witness ==
    /\ leaves = <<LfLpar, LfX, LfRsqb>>
    /\ raised = BracketMatchError
    /\ previous = 2
    /\ DOMAIN leaf_bracket_depth = {1, 2}

----------------------------------------------------------------------------
(* C3: every leaf with an entry in delimiters has bracket_depth 0, and one *)
(* mark call registers a priority on at most one leaf (the previous leaf   *)
(* by split-before or the leaf itself by split-after, never both).         *)

\* the leaves whose entry in delimiters this step wrote
Registered ==
    {i \in DOMAIN delimiters' : i \notin DOMAIN delimiters \/ delimiters'[i] # delimiters[i]}

DelimitersAtDepthZero ==
    \A i \in DOMAIN delimiters :
        i \in DOMAIN leaf_bracket_depth /\ leaf_bracket_depth[i] = 0

\* the claim as stated: in every state, whatever was called before
C3_DelimitersAtDepthZero ==
    [][ Cardinality(Registered) <= 1 /\ DelimitersAtDepthZero' ]_vars

\* as amended: as long as no mark call had raised BracketMatchError before
C3_DelimitersAtDepthZeroUntilError ==
    [][ /\ Cardinality(Registered) <= 1
        /\ BracketMatchError \notin faults => DelimitersAtDepthZero' ]_vars

\* a split-before priority sits on a leaf, a nested comma has none
C3_Witness ==
    /\ BracketMatchError \notin faults
    /\ \E j \in DOMAIN delimiters : leaves[j].type # "COMMA"
    /\ \E k \in DOMAIN leaf_bracket_depth :
           leaf_bracket_depth[k] > 0 /\ leaves[k].type = "COMMA"

----------------------------------------------------------------------------
(* C8: depth >= 0 in every state reachable from a fresh tracker by mark    *)
(* calls and pseudo-depth operations on arbitrary leaves.                  *)

\* the claim as stated: also when the tracker is used on after a
\* BracketMatchError
C8_DepthNeverNegative == depth >= 0

\* as amended: up to and including the first call that raises
\* BracketMatchError
C8_DepthNeverNegativeUntilError ==
    [][ BracketMatchError \notin faults => depth' >= 0 ]_vars

\* a stray `)` was skipped at depth 0, then ( ] raised for the first time
C8_Witness ==
    /\ leaves = <<LfRpar, LfLpar, LfRsqb>>
    /\ 1 \notin DOMAIN leaf_bracket_depth
    /\ raised = BracketMatchError
    /\ depth = 0

----------------------------------------------------------------------------
(* C9: lib2to3_parse tries the candidate grammars strictly in list order   *)
(* and stops at the first that parses: the tree returned is that of the    *)
(* first candidate that succeeds, no grammar is tried after a success, and *)
(* the failures of the earlier grammars do not reach the caller.           *)

Succeeds(g) == parse_outcome[g] \notin ParseFailures

\* the position of the first candidate that parses, 0 when none does
FirstSuccess(candidates) ==
    IF \E i \in 1..Len(candidates) : Succeeds(candidates[i])
    THEN CHOOSE i \in 1..Len(candidates) :
             Succeeds(candidates[i]) /\ \A k \in 1..(i - 1) : ~Succeeds(candidates[k])
    ELSE 0

C9_FirstSuccessWins ==
    LET candidates == get_grammars(target_versions)
        first == FirstSuccess(candidates)
    IN  /\ Len(attempts) <= Len(candidates)
        /\ attempts = SubSeq(candidates, 1, Len(attempts))
        /\ \A i \in 1..(Len(attempts) - 1) : ~Succeeds(attempts[i])
        /\ first > 0 => parse_pc # "raised" /\ parse_raised = NoParseError
        /\ parse_pc = "returned" =>
               /\ first > 0
               /\ Len(attempts) = first
               /\ parse_result.grammar = candidates[first]

\* the second candidate parsed after the first failed, a third was left untried
C9_Witness ==
    /\ parse_pc = "returned"
    /\ Len(attempts) = 2
    /\ Len(grammars) = 3
    /\ Succeeds(grammars[3])
    /\ parse_result.grammar = grammars[2]

----------------------------------------------------------------------------
(* C10: when every candidate grammar fails (ParseError or TokenError),     *)
(* each failure is recorded under its grammar's version, none is dropped,  *)
(* and the InvalidInput raised is the one recorded for the highest         *)
(* version among the candidates, whatever the order they were tried in.    *)

C10_HighestVersionError ==
    /\ \A i \in 1..Len(attempts) :
           ~Succeeds(attempts[i]) =>
               /\ GrammarVersion(attempts[i]) \in DOMAIN errors
               /\ errors[GrammarVersion(attempts[i])]
                      = InvalidInput(attempts[i], parse_outcome[attempts[i]])
    /\ (parse_pc = "raised" /\ Len(grammars) >= 1) =>
           /\ \A i \in 1..Len(grammars) : ~Succeeds(grammars[i])
           /\ Cardinality(DOMAIN errors) = Len(grammars)
           /\ parse_raised.error = "InvalidInput"
           /\ \A i \in 1..Len(grammars) :
                  \/ GrammarVersion(grammars[i]) = GrammarVersion(parse_raised.grammar)
                  \/ TupleLess(GrammarVersion(grammars[i]),
                               GrammarVersion(parse_raised.grammar))
           /\ parse_raised = errors[GrammarVersion(parse_raised.grammar)]

\* all three failed; the highest version, (3, 10), was tried last, after (3, 0)
C10_WitnessLastTried ==
    /\ parse_pc = "raised"
    /\ Len(grammars) = 3
    /\ parse_raised.grammar = "python_grammar_soft_keywords"
    /\ parse_outcome["python_grammar"] # parse_outcome["python_grammar_soft_keywords"]

\* both failed; the highest version, (3, 7), was tried first
C10_Witness ==
    /\ parse_pc = "raised"
    /\ Len(grammars) = 2
    /\ parse_raised.grammar = grammars[1]

----------------------------------------------------------------------------
(* C11: get_grammars returns async-keyword, classic, soft-keyword in that  *)
(* order for an empty set of target versions; for a non-empty set it       *)
(* returns, in that same relative order, the async-keyword grammar iff     *)
(* the targets support neither async identifiers nor pattern matching,     *)
(* the classic grammar iff they do not support async keywords, and the     *)
(* soft-keyword grammar iff they support pattern matching.                 *)

GrammarOrder ==
    <<"python_grammar_async_keywords", "python_grammar", "python_grammar_soft_keywords">>

Rank(g) == CHOOSE i \in 1..Len(GrammarOrder) : GrammarOrder[i] = g

Wanted(tvs, g) ==
    CASE g = "python_grammar_async_keywords" ->
             /\ ~supports_feature(tvs, "ASYNC_IDENTIFIERS")
             /\ ~supports_feature(tvs, "PATTERN_MATCHING")
      [] g = "python_grammar" -> ~supports_feature(tvs, "ASYNC_KEYWORDS")
      [] g = "python_grammar_soft_keywords" -> supports_feature(tvs, "PATTERN_MATCHING")

C11_GrammarsByFeature ==
    parse_pc # "called" =>
        IF target_versions = {}
        THEN grammars = GrammarOrder
        ELSE /\ \A g \in GrammarNames :
                    (\E i \in 1..Len(grammars) : grammars[i] = g)
                        <=> Wanted(target_versions, g)
             /\ \A i, j \in 1..Len(grammars) :
                    i < j => Rank(grammars[i]) < Rank(grammars[j])

\* two target versions that leave the async-keyword and the classic grammar
C11_Witness ==
    /\ parse_pc # "called"
    /\ target_versions # {}
    /\ grammars = <<"python_grammar_async_keywords", "python_grammar">>

----------------------------------------------------------------------------
(* C16: the text lib2to3_parse hands to the grammar driver ends with       *)
(* exactly one trailing newline, whether src_txt ends with none, one or    *)
(* several.                                                                *)

RECURSIVE TrailingNewlines(_)
TrailingNewlines(text) ==
    IF endswith(text, NL) THEN 1 + TrailingNewlines(Front(text)) ELSE 0

\* the claim as stated
C16_ExactlyOneTrailingNewline ==
    parse_pc # "called" => TrailingNewlines(driver_text) = 1

\* C16 as amended: the text handed to the driver ends with at least one
\* newline; one is appended iff src_txt does not end with a newline, and a
\* src_txt that ends with newlines keeps all of them.
C16_NewlineAppendedWhenMissing ==
    parse_pc # "called" =>
        /\ TrailingNewlines(driver_text) >= 1
        /\ driver_text = IF TrailingNewlines(src_txt) = 0
                         THEN src_txt \o <<NL>>
                         ELSE src_txt

\* a text without a trailing newline got one
C16_Witness ==
    /\ parse_pc # "called"
    /\ Len(src_txt) > 0
    /\ TrailingNewlines(src_txt) = 0
    /\ TrailingNewlines(driver_text) = 1

----------------------------------------------------------------------------
(* C12: parse_ast tries the (feature version, type comments) combinations  *)
(* with the feature versions in descending order, the type-comments pass   *)
(* first, and returns the result of the first attempt that succeeds; when  *)
(* every attempt fails, the SyntaxError it raises is built from a failure  *)
(* captured in the type-comments pass, never from a failure of the pass    *)
(* without type comments, the last attempted.                              *)

NumVersions == MaxMinor - MinMinor + 1

\* the i-th combination of a call on s
Combination(s, i) ==
    Key(s, MaxMinor - ((i - 1) % NumVersions), i <= NumVersions)

C12_DescendingFirstSuccess ==
    ast_pc # "idle" =>
        /\ Len(ast_attempts) <= 2 * NumVersions
        /\ \A i \in 1..Len(ast_attempts) : ast_attempts[i] = Combination(src, i)
        /\ \A i \in 1..(Len(ast_attempts) - 1) :
               ast_outcome[ast_attempts[i]] = "SyntaxError"
        /\ ast_pc = "returned" =>
               /\ ast_outcome[Last(ast_attempts)] = "AST"
               /\ ast_result = Tree(Last(ast_attempts))
        /\ ast_pc \in {"exhausted", "raised"} =>
               /\ Len(ast_attempts) = 2 * NumVersions
               /\ ast_outcome[Last(ast_attempts)] = "SyntaxError"
        /\ ast_pc = "raised" =>
               /\ ast_raised.error = "SyntaxError"
               /\ ast_raised.arg.error = "SyntaxError"
               /\ ast_raised.arg.arg.type_comments
               /\ \E i \in 1..NumVersions : ast_attempts[i] = ast_raised.arg.arg
               /\ ast_raised.arg.arg # Last(ast_attempts)

\* every combination failed and parse_ast raised
C12_Witness ==
    /\ ast_pc = "raised"
    /\ Len(ast_attempts) = 2 * NumVersions
    /\ ast_raised.arg.arg.type_comments

\* the first pass failed and a lower version parsed without type comments
C12_WitnessSecondPass ==
    /\ ast_pc = "returned"
    /\ Len(ast_attempts) = 2 * NumVersions
    /\ ~ast_result.of.type_comments

----------------------------------------------------------------------------
(* C13: max_delimiter_priority(exclude) returns the maximum priority among *)
(* the recorded delimiters whose leaf id is not in exclude; when none is   *)
(* left after the exclusion, a tracker without delimiters included, it     *)
(* raises ValueError and returns no zero default.                          *)

Left == {k \in DOMAIN delimiters : k \notin q_exclude}

C13_MaxOfRemainingOrValueError ==
    q_result # NoAnswer =>
        IF Left = {}
        THEN q_result.raised = ValueError
        ELSE /\ q_result.raised = NoError
             /\ \E k \in Left : delimiters[k] = q_result.value
             /\ \A k \in Left : delimiters[k] <= q_result.value

\* the delimiter of the highest priority was excluded and a lower one answered
C13_Witness ==
    /\ q_result.raised = NoError
    /\ q_result.value > 0
    /\ \E k \in q_exclude \cap DOMAIN delimiters : delimiters[k] > q_result.value

\* every delimiter of the line was excluded
C13_WitnessAllExcluded ==
    /\ q_result.raised = ValueError
    /\ DOMAIN delimiters # {}
    /\ DOMAIN delimiters \subseteq q_exclude

----------------------------------------------------------------------------
(* C14: two trees that differ only in the leading and trailing whitespace  *)
(* of the lines of a docstring (a string constant that is the value of an  *)
(* expression statement), a re-indented continuation line for one, yield   *)
(* equal sequences; two docstrings of different words yield different      *)
(* sequences.                                                              *)

DocConstant(tree) == Field(Field(tree, "body").items[1], "value").node
DocText(tree) == Field(DocConstant(tree), "value").s

\* the pieces of a text between its newlines
RECURSIVE Segments(_)
Segments(text) ==
    IF \E i \in 1..Len(text) : text[i] = NL
    THEN LET i == CHOOSE k \in 1..Len(text) :
                      text[k] = NL /\ \A j \in 1..(k - 1) : text[j] # NL
         IN  <<SubSeq(text, 1, i - 1)>> \o Segments(SubSeq(text, i + 1, Len(text)))
    ELSE <<text>>

RECURSIVE Unspaced(_)
Unspaced(text) ==
    IF text # <<>> /\ Head(text) = " " THEN Unspaced(Tail(text))
    ELSE IF text # <<>> /\ text[Len(text)] = " "
         THEN Unspaced(SubSeq(text, 1, Len(text) - 1))
         ELSE text

\* the lines of a text without the spaces around them
LineContents(text) ==
    LET segments == Segments(text)
    IN  [i \in 1..Len(segments) |-> Unspaced(segments[i])]

\* the words of a text
RECURSIVE Words(_)
Words(text) ==
    IF text = <<>> THEN <<>>
    ELSE IF Head(text) \in {" ", NL} THEN Words(Tail(text))
    ELSE LET n == CHOOSE k \in 1..Len(text) :
                      /\ \A j \in 1..k : text[j] \notin {" ", NL}
                      /\ k = Len(text) \/ text[k + 1] \in {" ", NL}
         IN  <<SubSeq(text, 1, n)>> \o Words(SubSeq(text, n + 1, Len(text)))

C14_DocstringWhitespaceIgnored ==
    (/\ stringified
     /\ ast_a \in DocTrees
     /\ ast_b \in DocTrees
     /\ Field(DocConstant(ast_a), "kind") = Field(DocConstant(ast_b), "kind")) =>
        /\ LineContents(DocText(ast_a)) = LineContents(DocText(ast_b)) => seq_a = seq_b
        /\ Words(DocText(ast_a)) # Words(DocText(ast_b)) => seq_a # seq_b

\* a continuation line with and without its indent
C14_Witness ==
    /\ stringified
    /\ ast_a \in DocTrees
    /\ ast_b \in DocTrees
    /\ DocText(ast_a) = <<"a", NL, " ", "a">>
    /\ DocText(ast_b) = <<"a", NL, "a">>
    /\ seq_a = seq_b

----------------------------------------------------------------------------
(* C15: a Delete node whose targets are one Tuple of e1..en yields the     *)
(* same sequence as a Delete node whose targets are e1..en themselves.     *)

Targets(tree) == Field(Field(tree, "body").items[1], "targets").items

\* a is b with its targets in one pair of parentheses
Parenthesized(a, b) ==
    /\ Len(Targets(a)) = 1
    /\ Targets(a)[1].cls = "Tuple"
    /\ Field(Targets(a)[1], "elts").items = Targets(b)

HasTupleTarget(tree) == \E i \in 1..Len(Targets(tree)) : Targets(tree)[i].cls = "Tuple"

----------------------------------------------------------------------------
(* C17: two trees that are the same but for the kind of one operator node  *)
(* yield sequences that differ, so comparing the sequences line by line,   *)
(* in order, tells them apart.                                             *)

OpExpr(tree) == Field(Field(tree, "body").items[1], "value").node
OpOf(expr) == Field(expr, "op").node.cls

\* the operators of a tree, the inner one first
OpKinds(tree) ==
    LET expr == OpExpr(tree)
        left == Field(expr, "left").node
    IN  IF left.cls = "BinOp" THEN <<OpOf(left), OpOf(expr)>> ELSE <<OpOf(expr)>>

OneOperatorDiffers(a, b) ==
    /\ Len(OpKinds(a)) = Len(OpKinds(b))
    /\ Cardinality({i \in 1..Len(OpKinds(a)) : OpKinds(a)[i] # OpKinds(b)[i]}) = 1

C17_OperatorMutationDetected ==
    (/\ stringified
     /\ ast_a \in OpTrees
     /\ ast_b \in OpTrees
     /\ OneOperatorDiffers(ast_a, ast_b)) =>
        /\ seq_a # seq_b
        /\ Len(seq_a) = Len(seq_b)
        /\ \E i \in 1..Len(seq_a) : seq_a[i] # seq_b[i]

\* the inner of two operators was changed
C17_Witness ==
    /\ stringified
    /\ ast_a \in OpTrees
    /\ ast_b \in OpTrees
    /\ OpKinds(ast_a) = <<"Add", "Mult">>
    /\ OpKinds(ast_b) = <<"Sub", "Mult">>
    /\ seq_a # seq_b

----------------------------------------------------------------------------
(* C18: mark is a no-op on a skipped leaf: when the leaf is a comment, or  *)
(* when depth is 0 and the leaf is a closing bracket with no open record,  *)
(* depth, bracket_match, delimiters, previous and invisible stay as they   *)
(* were and the leaf gets no bracket_depth and no opening_bracket.         *)

MarkStep == Len(leaves') = Len(leaves) + 1

StrayCloser(leaf) ==
    /\ depth = 0
    /\ leaf.type \in {"RPAR", "RSQB", "RBRACE"}
    /\ ~\E key \in DOMAIN bracket_match : key[1] = 0 /\ key[2] = leaf.type

C18_SkippedLeafIsNoOp ==
    [][ (MarkStep /\ (Last(leaves').type = "COMMENT" \/ StrayCloser(Last(leaves')))) =>
            /\ raised' = NoError
            /\ depth' = depth
            /\ bracket_match' = bracket_match
            /\ delimiters' = delimiters
            /\ previous' = previous
            /\ invisible' = invisible
            /\ leaf_bracket_depth' = leaf_bracket_depth
            /\ leaf_opening_bracket' = leaf_opening_bracket ]_vars

\* after x, a comment and a stray `)` were skipped
C18_Witness ==
    /\ leaves = <<LfX, LfComment, LfRpar>>
    /\ raised = NoError
    /\ previous = 1
    /\ DOMAIN leaf_bracket_depth = {1}
    /\ depth = 0

----------------------------------------------------------------------------
(* C19: whenever mark accepts a closing bracket without error, its         *)
(* opening_bracket is the most recently marked opening bracket that is     *)
(* still unmatched, of the counterpart kind and of the same bracket_depth, *)
(* and its record leaves bracket_match, so that no opening bracket is      *)
(* matched to two closing brackets.                                        *)

\* the opening brackets marked so far that no closing bracket refers to
UnmatchedOpenings ==
    {i \in 1..Len(leaves) :
        /\ leaves[i].type \in {"LPAR", "LSQB", "LBRACE"}
        /\ \A j \in DOMAIN leaf_opening_bracket : leaf_opening_bracket[j] # i}

Counterpart(t) ==
    CASE t = "LPAR" -> "RPAR"
      [] t = "LSQB" -> "RSQB"
      [] t = "LBRACE" -> "RBRACE"
      [] OTHER -> "None"

\* what holds of a step in which mark accepted a closing bracket
MatchedToInnermost ==
    LET id == Len(leaves')
        opening == leaf_opening_bracket'[id]
    IN  /\ opening \in UnmatchedOpenings
        /\ \A i \in UnmatchedOpenings : i <= opening
        /\ Counterpart(leaves[opening].type) = leaves'[id].type
        /\ opening \in DOMAIN leaf_bracket_depth'
        /\ leaf_bracket_depth'[opening] = leaf_bracket_depth'[id]
        /\ \A key \in DOMAIN bracket_match' : bracket_match'[key] # opening

AcceptedCloser ==
    /\ MarkStep
    /\ Last(leaves').type \in {"RPAR", "RSQB", "RBRACE"}
    /\ Len(leaves') \in DOMAIN leaf_opening_bracket'

\* the claim as stated: whatever was called on the tracker before
C19_CloserMatchesInnermost ==
    [][ AcceptedCloser => MatchedToInnermost ]_vars

\* C19 as amended: as long as no mark call on the tracker has raised
\* BracketMatchError
C19_CloserMatchesInnermostUntilError ==
    [][ (AcceptedCloser /\ BracketMatchError \notin faults) => MatchedToInnermost ]_vars

\* ( [ ] ) was marked: the `]` refers to the `[`, the `)` to the `(`
C19_Witness ==
    /\ leaves = <<LfLpar, LfLsqb, LfRsqb, LfRpar>>
    /\ faults = {}
    /\ leaf_opening_bracket[3] = 2
    /\ leaf_opening_bracket[4] = 1
    /\ bracket_match = <<>>

----------------------------------------------------------------------------
(* C20: get_leaves_inside_matching_brackets returns exactly the leaves     *)
(* inside, both ends included, some bracket pair matched by a stack scan   *)
(* that starts at the first opening bracket and stops at the first closing *)
(* bracket that does not match the stack top: no leaf before the first     *)
(* opening bracket, no leaf at or after the stopping closer, no unmatched  *)
(* opening bracket outside a matched pair; nothing without an opening      *)
(* bracket.                                                                *)

IsOpening(i) == scan_leaves[i].type \in {"LPAR", "LSQB", "LBRACE"}
IsClosing(i) == scan_leaves[i].type \in {"RPAR", "RSQB", "RBRACE"}

FirstOpening ==
    IF \E i \in 1..Len(scan_leaves) : IsOpening(i)
    THEN CHOOSE i \in 1..Len(scan_leaves) :
             IsOpening(i) /\ \A j \in 1..(i - 1) : ~IsOpening(j)
    ELSE 0

\* the brackets at s and e are a pair: of one kind, around a well-formed inside
Pair(s, e) ==
    /\ s < e
    /\ IsOpening(s)
    /\ Counterpart(scan_leaves[s].type) = scan_leaves[e].type
    /\ WellFormed(SubSeq(scan_leaves, s + 1, e - 1))

\* a closing bracket after the first opening bracket that closes no pair
Unpaired(i) ==
    /\ i >= FirstOpening
    /\ IsClosing(i)
    /\ ~\E s \in FirstOpening..(i - 1) : Pair(s, i)

\* where the scan stops, past the end when it does not
Stop ==
    IF \E i \in 1..Len(scan_leaves) : Unpaired(i)
    THEN CHOOSE i \in 1..Len(scan_leaves) :
             Unpaired(i) /\ \A j \in 1..(i - 1) : ~Unpaired(j)
    ELSE Len(scan_leaves) + 1

InsidePairs ==
    IF FirstOpening = 0
    THEN {}
    ELSE {k \in 1..Len(scan_leaves) :
             \E s \in FirstOpening..k : \E e \in k..(Stop - 1) : Pair(s, e)}

C20_LeavesInsideMatchedPairs ==
    scan_pc = "returned" =>
        /\ scan_ids = InsidePairs
        /\ FirstOpening = 0 => scan_ids = {}
        /\ \A k \in scan_ids : FirstOpening <= k /\ k < Stop

\* ) ( [ ] ]: the pair [ ] is returned; the leading `)`, the open `(` and
\* the `]` the scan stopped at are not
C20_Witness ==
    /\ scan_pc = "returned"
    /\ scan_leaves = <<LfRpar, LfLpar, LfLsqb, LfRsqb, LfRsqb>>
    /\ scan_ids = {3, 4}


----------------------------------------------------------------------------
(* C21: the cache of _parse_single_version.                                *)

\* how often the parser was run with a key, and how often
\* _parse_single_version was called with it
Runs(key) == Cardinality({i \in DOMAIN parser_runs : parser_runs[i] = key})
CallsOf(key) == Cardinality({i \in DOMAIN single_calls : single_calls[i].key = key})

\* a call with the key raised SyntaxError
FailedKey(key) ==
    \E i \in DOMAIN single_calls : single_calls[i] = SingleCall(key, SyntaxErrorOf(key))

\* a call with a key seen before comes out as the first call with it did
SameOutcomeAsFirst ==
    \A i, j \in DOMAIN single_calls :
        (i < j /\ single_calls[i].key = single_calls[j].key)
            => single_calls[j].out = single_calls[i].out

\* C21 as stated: over any sequence of parse_ast calls the parser runs at
\* most once per key (src, feature version, type_comments), whether the parse
\* succeeded or failed, and a repeated call with a key comes out as the first.
C21_ParsedOncePerKey ==
    /\ \A key \in Keys : Runs(key) <= 1
    /\ SameOutcomeAsFirst

\* C21 as amended: the parser runs once for a key whose parse succeeded,
\* however often the key is asked for, and once per call for a key whose
\* parse failed; a repeated call with a key comes out as the first.
C21_ParsedOncePerSuccessfulKey ==
    /\ \A key \in Keys :
          Runs(key) = IF FailedKey(key)
                      THEN CallsOf(key)
                      ELSE (IF CallsOf(key) > 0 THEN 1 ELSE 0)
    /\ SameOutcomeAsFirst

\* a key was asked for twice, parsed once and gave the same tree twice
C21_Witness ==
    \E i, j \in DOMAIN single_calls :
        /\ i < j
        /\ single_calls[i] = SingleCall(single_calls[i].key, Tree(single_calls[i].key))
        /\ single_calls[j] = single_calls[i]
        /\ Runs(single_calls[i].key) = 1

\* a key whose parse failed was asked for twice and parsed twice
C21_WitnessFailedTwice ==
    \E key \in Keys : FailedKey(key) /\ CallsOf(key) = 2 /\ Runs(key) = 2


----------------------------------------------------------------------------
(* C22: the assertion of lib2to3_parse, line 92.                           *)

\* the three support flags get_grammars reads off a set of target versions
SupportFlags(tvs) ==
    [f \in {"ASYNC_IDENTIFIERS", "ASYNC_KEYWORDS", "PATTERN_MATCHING"} |->
        supports_feature(tvs, f)]

\* C22: for every set of target versions get_grammars returns at least one
\* grammar, so when every grammar has failed at least one error is recorded
\* and len(errors) >= 1 holds: lib2to3_parse never raises AssertionError.
C22_AssertionNeverFails ==
    /\ parse_pc # "called" => Len(grammars) >= 1
    /\ parse_pc = "raised" => Cardinality(DOMAIN errors) >= 1
    /\ parse_raised # AssertionError

\* target versions that leave one grammar, which failed: the assertion was
\* reached with one recorded error
C22_Witness ==
    /\ parse_pc = "raised"
    /\ target_versions # {}
    /\ SupportFlags(target_versions)["ASYNC_IDENTIFIERS"]
    /\ Len(grammars) = 1
    /\ Cardinality(DOMAIN errors) = 1
    /\ parse_raised = errors[GrammarVersion(grammars[1])]

====
